---- MODULE Spec2Model ----
(***************************************************************************)
(* RedditXplorer: the Flask application built by create_app(), the request *)
(* handlers of the two controller modules, and embed_post's use of the     *)
(* one Pinecone index every request shares.                                *)
(*                                                                         *)
(* A Python str is a sequence of atoms (TLA+ strings); the atom "\n\n" is  *)
(* the paragraph break the text splitter cuts at, "," the comma            *)
(* str.split(',') cuts at, and a digit atom one decimal digit.  An         *)
(* optional value is None (<<>>) or Some(v) (<<v>>).                       *)
(***************************************************************************)
EXTENDS Naturals, Sequences, FiniteSets, Bags, TLC

None == <<>>
Some(v) == <<v>>
Val(o) == o[1]

\* ------------------------------------------------------------------------
\* Python built-ins the handlers use
\* ------------------------------------------------------------------------

\* len(a) of one atom: the literals of embed_post's f-string, the words of
\* the modelled Reddit content, and one character otherwise.
AtomLen(a) ==
    CASE a = "Title: " -> 7
      [] a = "\nBody: " -> 7
      [] a = "\nComments: " -> 11
      [] a = "\n\n" -> 2
      [] a = "a1" -> 600
      [] a = "a2" -> 600
      [] a = "ca1" -> 300
      [] a = "cb1" -> 40
      [] a = "cb2" -> 50
      [] a = "c1" -> 680
      [] a = "c2" -> 150
      [] a = "c3" -> 480
      [] a = "GME" -> 3
      [] a = "TSLA" -> 4
      [] a = "DD" -> 2
      [] OTHER -> 1

RECURSIVE strlen(_)
strlen(s) == IF s = <<>> THEN 0 ELSE AtomLen(Head(s)) + strlen(Tail(s))

\* s.split(sep): the pieces between the occurrences of sep, empty ones kept.
RECURSIVE str_split(_, _)
str_split(s, sep) ==
    IF \A i \in 1..Len(s) : s[i] # sep
    THEN <<s>>
    ELSE LET i == CHOOSE k \in 1..Len(s) :
                    s[k] = sep /\ \A j \in 1..(k - 1) : s[j] # sep
         IN  <<SubSeq(s, 1, i - 1)>> \o str_split(SubSeq(s, i + 1, Len(s)), sep)

\* sep.join(parts)
RECURSIVE str_join(_, _)
str_join(sep, parts) ==
    IF parts = <<>> THEN <<>>
    ELSE IF Len(parts) = 1 THEN parts[1]
    ELSE parts[1] \o sep \o str_join(sep, Tail(parts))

Whitespace == {" ", "\n", "\n\n"}

\* s.strip()
RECURSIVE str_strip(_)
str_strip(s) ==
    IF s = <<>> THEN s
    ELSE IF Head(s) \in Whitespace THEN str_strip(Tail(s))
    ELSE IF s[Len(s)] \in Whitespace THEN str_strip(SubSeq(s, 1, Len(s) - 1))
    ELSE s

Digits == {"0", "1", "2", "3", "4", "5", "6", "7", "8", "9"}

DigitVal(a) ==
    CASE a = "0" -> 0 [] a = "1" -> 1 [] a = "2" -> 2 [] a = "3" -> 3
      [] a = "4" -> 4 [] a = "5" -> 5 [] a = "6" -> 6 [] a = "7" -> 7
      [] a = "8" -> 8 [] a = "9" -> 9

\* int(s) is defined (raises no ValueError) on a non-empty string of digits.
IntParses(s) == s # <<>> /\ \A i \in 1..Len(s) : s[i] \in Digits

RECURSIVE int(_)
int(s) == IF s = <<>> THEN 0 ELSE 10 * int(SubSeq(s, 1, Len(s) - 1)) + DigitVal(s[Len(s)])

\* str(x) of an optional name: 'None' for None, the name otherwise.
str(o) == IF o = None THEN <<"None">> ELSE Val(o)

\* ------------------------------------------------------------------------
\* models/Post.py
\* ------------------------------------------------------------------------

Post(post_id, title, upvotes, username, body, comments) ==
    [post_id |-> post_id, title |-> title, upvotes |-> upvotes,
     username |-> username, body |-> body, comments |-> comments]

\* Post.to_dict: the six fields, each as stored.
to_dict(p) ==
    [post_id |-> p.post_id, title |-> p.title, upvotes |-> p.upvotes,
     username |-> p.username, body |-> p.body, comments |-> p.comments]

\* ------------------------------------------------------------------------
\* utilities/helper_functions.py: the post builders
\* ------------------------------------------------------------------------

\* kwargs.get(key, default)
kwargs_get(kwargs, key, default) ==
    IF key \in DOMAIN kwargs THEN kwargs[key] ELSE default

create_post_summary_from_document(doc) ==
    Post(doc.metadata.post_id, doc.metadata.post_title,
         Some(doc.metadata.post_score), str(doc.metadata.post_author),
         None, None)

\* create_post reading the id under a key the handler does not pass.
create_post_wrong_key(kwargs) ==
    Post(kwargs_get(kwargs, "id", <<>>),
         kwargs_get(kwargs, "post_title", <<>>),
         Some(kwargs_get(kwargs, "post_score", 0)),
         str(Some(kwargs_get(kwargs, "post_author", <<>>))),
         Some(kwargs_get(kwargs, "post_body", <<>>)),
         Some(kwargs_get(kwargs, "post_comments", <<>>)))

create_post(kwargs) ==
    Post(kwargs_get(kwargs, "post_id", <<>>),
         kwargs_get(kwargs, "post_title", <<>>),
         Some(kwargs_get(kwargs, "post_score", 0)),
         str(Some(kwargs_get(kwargs, "post_author", <<>>))),
         Some(kwargs_get(kwargs, "post_body", <<>>)),
         Some(kwargs_get(kwargs, "post_comments", <<>>)))

\* ------------------------------------------------------------------------
\* utilities/helper_functions.py: embed_post's text pipeline
\* ------------------------------------------------------------------------

chunk_size == 1000
chunk_overlap == 200
Separator == "\n\n"

\* Line 132: the f-string over the post dict handed to embed_post.
content_of(post) ==
    <<"Title: ">> \o post.title \o <<"\nBody: ">> \o Val(post.body)
        \o <<"\nComments: ">> \o str_join(<<" ">>, Val(post.comments))

\* TextSplitter._join_docs: the pieces joined by the separator and stripped;
\* nothing when that leaves the empty string.
join_docs(current_doc) ==
    LET text == str_strip(str_join(<<Separator>>, current_doc))
    IN  IF text = <<>> THEN None ELSE Some(text)

SepLenIf(c) == IF c THEN AtomLen(Separator) ELSE 0

\* The while loop of TextSplitter._merge_splits: pieces leave the front of
\* the current chunk until what is left fits the overlap and the next piece.
RECURSIVE pop_front(_, _, _)
pop_front(current_doc, total, len) ==
    IF \/ total > chunk_overlap
       \/ /\ total + len + SepLenIf(Len(current_doc) > 0) > chunk_size
          /\ total > 0
    THEN pop_front(Tail(current_doc),
                   total - (strlen(Head(current_doc))
                            + SepLenIf(Len(current_doc) > 1)),
                   len)
    ELSE [current_doc |-> current_doc, total |-> total]

\* TextSplitter._merge_splits, one piece per call.
RECURSIVE merge_splits(_, _, _, _)
merge_splits(splits, docs, current_doc, total) ==
    IF splits = <<>> THEN docs \o join_docs(current_doc)
    ELSE LET d    == Head(splits)
             len  == strlen(d)
             full == /\ total + len + SepLenIf(Len(current_doc) > 0) > chunk_size
                     /\ Len(current_doc) > 0
             kept == IF full THEN pop_front(current_doc, total, len)
                     ELSE [current_doc |-> current_doc, total |-> total]
             next == Append(kept.current_doc, d)
         IN  merge_splits(Tail(splits),
                          IF full THEN docs \o join_docs(current_doc) ELSE docs,
                          next,
                          kept.total + len + SepLenIf(Len(next) > 1))

\* CharacterTextSplitter(chunk_size=1000, chunk_overlap=200).split_text
split_text(text) ==
    merge_splits(SelectSeq(str_split(text, Separator), LAMBDA s : s # <<>>),
                 <<>>, <<>>, 0)

Document(page_content, metadata) ==
    [page_content |-> page_content, metadata |-> metadata]

\* Lines 138-149: one Document per chunk, with the post's upvotes and title.
documents_of(post) ==
    LET chunks == split_text(content_of(post))
    IN  [i \in 1..Len(chunks) |->
            Document(chunks[i], [upvotes |-> post.upvotes, title |-> post.title])]

\* ------------------------------------------------------------------------
\* The services the handlers call: Reddit and the Pinecone index
\* ------------------------------------------------------------------------

\* What reddit.submission(id=...) yields for the ids the requests use.  A
\* comment without a body is a MoreComments placeholder of comments.list().
Submission(id) ==
    CASE id = "a" -> [title |-> <<"GME">>, selftext |-> <<"a1", "\n\n", "a2">>,
                      score |-> 7, author |-> Some(<<"alice">>),
                      comments |-> <<[body |-> Some(<<"ca1">>)], [body |-> None]>>]
      [] id = "b" -> [title |-> <<"TSLA">>, selftext |-> <<>>,
                      score |-> 3, author |-> None,
                      comments |-> <<[body |-> Some(<<"cb1">>)],
                                     [body |-> Some(<<"cb2">>)]>>]
      [] id = "c" -> [title |-> <<"DD">>,
                      selftext |-> <<"c1", "\n\n", "c2", "\n\n", "c3">>,
                      score |-> 0, author |-> Some(<<"carol">>),
                      comments |-> <<>>]

PostIds == {"a", "b", "c"}

\* The listing of a subreddit in one category, newest or hottest first.
Listing(subreddit, category) ==
    CASE subreddit = <<"wallstreetbets">> /\ category = <<"hot">> -> <<"a", "b", "c">>
      [] subreddit = <<"wallstreetbets">> /\ category = <<"new">> -> <<"c", "a">>
      [] subreddit = <<"python">> /\ category = <<"hot">> -> <<"b">>
      [] OTHER -> <<>>

\* RedditPostsLoader.load of one category: the first number_posts posts of
\* the listing, one Document each.
load_category(subreddit, category, number_posts) ==
    LET ids == Listing(subreddit, category)
        n   == IF number_posts < Len(ids) THEN number_posts ELSE Len(ids)
    IN  [i \in 1..n |->
            Document(Submission(ids[i]).selftext,
                     [post_id |-> <<ids[i]>>,
                      post_title |-> Submission(ids[i]).title,
                      post_score |-> Submission(ids[i]).score,
                      post_author |-> Submission(ids[i]).author])]

\* RedditPostsLoader.load: the categories in the order given.
RECURSIVE loader_load(_, _, _)
loader_load(subreddit, categories, number_posts) ==
    IF categories = <<>> THEN <<>>
    ELSE load_category(subreddit, Head(categories), number_posts)
            \o loader_load(subreddit, Tail(categories), number_posts)

\* create_reddit_loader: the loader is what it was constructed with.
create_reddit_loader(subreddit, categories, number_posts) ==
    [search_queries |-> <<subreddit>>, categories |-> categories,
     number_posts |-> number_posts, mode |-> "subreddit"]

RECURSIVE SeqToBag(_)
SeqToBag(s) ==
    IF s = <<>> THEN EmptyBag ELSE SetToBag({Head(s)}) (+) SeqToBag(Tail(s))

\* index._index.describe_index_stats()['total_vector_count']
total_vector_count(index) == BagCardinality(index)

\* A delete that leaves the vectors in place.
delete_all_keeps(index) == index

\* index.delete(delete_all=True)
delete_all(index) == EmptyBag

\* index.add_documents(documents): every document becomes a vector of its own.
add_documents(index, documents) == index (+) SeqToBag(documents)

\* The check of line 128 off by one.
has_existing_embeddings_off_by_one(index) == total_vector_count(index) > 1

\* Line 128: whether embed_post clears the index first.
has_existing_embeddings(index) == total_vector_count(index) > 0

\* vectorstore.as_retriever(): the documents handed to the prompt, at most
\* four of the index.
retriever_k == 4
retrieve(index, query) ==
    IF BagCardinality(index) <= retriever_k THEN index
    ELSE CHOOSE b \in SubBag(index) : BagCardinality(b) = retriever_k

\* reply_to_message(message): the content of the model's answer, which is
\* determined by the prompt: the retrieved context and the question.
reply_to_message(index, message) ==
    [context |-> retrieve(index, message), question |-> message]

\* The parameters reply_to_message declares (line 172).
reply_to_message_params == <<"message">>

\* ------------------------------------------------------------------------
\* Flask: blueprints, the URL map and dispatch
\* ------------------------------------------------------------------------

Rule(rule, methods, endpoint) ==
    [rule |-> rule, methods |-> methods, endpoint |-> endpoint]

\* app/reddit_app/__init__.py
reddit_bp ==
    [url_prefix |-> <<>>,
     rules |-> {Rule(<<>>, {"GET"}, "index")}]

\* app/reddit_app/controllers/PostController.py
PostController_bp ==
    [url_prefix |-> <<"reddit">>,
     rules |-> {Rule(<<"posts">>, {"GET"}, "PostController.get_reddit_posts"),
                Rule(<<"post", "<post_id>">>, {"GET"},
                     "PostController.get_reddit_post_by_id")}]

\* app/reddit_app/controllers/post_controller.py
post_controller_bp ==
    [url_prefix |-> <<"reddit">>,
     rules |-> {Rule(<<"posts">>, {"GET"}, "post_controller.get_reddit_posts"),
                Rule(<<"post">>, {"GET"}, "post_controller.get_reddit_post_by_id"),
                Rule(<<"chat">>, {"POST"}, "post_controller.chat_with_post")}]

register_blueprint(bp) ==
    {Rule(bp.url_prefix \o r.rule, r.methods, r.endpoint) : r \in bp.rules}

\* app/__init__.py: the URL map of the application create_app() returns.
create_app == register_blueprint(reddit_bp) \cup register_blueprint(PostController_bp)

\* The URL map of an application that mounts post_controller.py's blueprint.
post_controller_app == register_blueprint(post_controller_bp)

IsConverter(segment) == segment = "<post_id>"

Matches(rule, path) ==
    /\ Len(rule) = Len(path)
    /\ \A i \in 1..Len(rule) : IsConverter(rule[i]) \/ rule[i] = path[i]

\* Werkzeug's match: the endpoint of the rule for the path and method, 405
\* when only the method is wrong, 404 when no rule has the path.
dispatch(url_map, method, path) ==
    LET byPath   == {u \in url_map : Matches(u.rule, path)}
        byMethod == {u \in byPath : method \in u.methods}
    IN  IF byMethod # {}
        THEN LET u == CHOOSE v \in byMethod : TRUE
             IN  [status |-> 200, endpoint |-> u.endpoint,
                  view_args |->
                     IF \E i \in 1..Len(u.rule) : IsConverter(u.rule[i])
                     THEN Some(<<path[CHOOSE i \in 1..Len(u.rule) :
                                        IsConverter(u.rule[i])]>>)
                     ELSE None]
        ELSE [status |-> IF byPath # {} THEN 405 ELSE 404,
              endpoint |-> "", view_args |-> None]

\* request.args.get(key, default) and data.get(key, default)
args_get(args, key, default) ==
    IF key \in DOMAIN args THEN args[key] ELSE default

\* ------------------------------------------------------------------------
\* State: the index all requests share, and one frame per server thread
\* ------------------------------------------------------------------------

VARIABLES
    store,      \* the Pinecone index: a bag of Documents
    thread      \* thread -> the frame of the request it is serving

vars == <<store, thread>>

\* The threads of the development server app.run() starts (run.py).
NumThreads == 2
Threads == 1..NumThreads

NoArgs == [k \in {} |-> <<>>]

Request(method, path, args, json) ==
    [method |-> method, path |-> path, args |-> args, json |-> json]

\* GET /, GET /reddit/posts with and without its parameters, GET /reddit/post
\* by query parameter and by path, POST /reddit/chat.
Requests ==
    {Request("GET", <<>>, NoArgs, NoArgs)}
    \cup {Request("GET", <<"reddit", "posts">>, a, NoArgs) :
            a \in {NoArgs,
                   [limit |-> <<"2">>],
                   [number_posts |-> <<"1">>],
                   [subreddit |-> <<"python">>,
                    categories |-> <<"hot", ",", "new">>,
                    limit |-> <<"1", "0">>],
                   [categories |-> <<"new">>, limit |-> <<"x">>]}}
    \cup {Request("GET", <<"reddit", "post">>, [post_id |-> <<id>>], NoArgs) :
            id \in PostIds}
    \cup {Request("GET", <<"reddit", "post", id>>, NoArgs, NoArgs) :
            id \in PostIds}
    \cup {Request("POST", <<"reddit", "chat">>, NoArgs, j) :
            j \in {[post_id |-> <<"a">>, message |-> <<"why">>],
                   [post_id |-> <<"b">>, message |-> <<"why">>,
                    chat_history |-> <<<<"hi">>>>]}}

\* A thread that serves no request.
Idle ==
    [pc |-> "idle", request |-> None, endpoint |-> "", view_args |-> None,
     loader |-> None, post |-> None, embed_arg |-> None, deleted |-> FALSE,
     documents |-> None, embed_ret |-> None, response |-> None,
     exception |-> None]

\* The first statement of the view function of an endpoint.
Entry(endpoint) ==
    CASE endpoint = "index" -> "index"
      [] endpoint \in {"PostController.get_reddit_posts",
                       "post_controller.get_reddit_posts"} -> "posts"
      [] endpoint \in {"PostController.get_reddit_post_by_id",
                       "post_controller.get_reddit_post_by_id"} -> "fetch"
      [] endpoint = "post_controller.chat_with_post" -> "chat"

\* A handler that catches the exception and answers all the same.
Raise_caught(f, type) ==
    [f EXCEPT !.pc = "responded",
              !.exception = Some([type |-> type, at |-> f.pc]),
              !.response = Some([status |-> 200, body |-> <<>>])]

\* An exception raised by the statement at f.pc leaves the view function:
\* no handler of the repository catches it.
Raise(f, type) ==
    [f EXCEPT !.pc = "raised", !.exception = Some([type |-> type, at |-> f.pc])]

\* return jsonify(body)
Return(f, body) ==
    [f EXCEPT !.pc = "responded", !.response = Some([status |-> 200, body |-> body])]

Init ==
    /\ store = EmptyBag
    /\ thread = [t \in Threads |-> Idle]

\* ------------------------------------------------------------------------
\* Actions
\* ------------------------------------------------------------------------

\* A thread takes a request and Flask dispatches it on the URL map.
Receive(t, r, url_map) ==
    /\ thread[t].pc = "idle"
    /\ LET d == dispatch(url_map, r.method, r.path)
       IN  thread' = [thread EXCEPT ![t] =
              IF d.status = 200
              THEN [Idle EXCEPT !.pc = Entry(d.endpoint), !.request = Some(r),
                                !.endpoint = d.endpoint, !.view_args = d.view_args]
              ELSE [Idle EXCEPT !.pc = "responded", !.request = Some(r),
                                !.response = Some([status |-> d.status,
                                                   body |-> <<>>])]]
    /\ UNCHANGED store

\* reddit_app/__init__.py: index()
Index(t) ==
    /\ thread[t].pc = "index"
    /\ thread' = [thread EXCEPT ![t] = Return(@, <<"reddit blueprint">>)]
    /\ UNCHANGED store

\* The query parameter get_reddit_posts reads the number of posts from.
NumberPostsParam(endpoint) ==
    IF endpoint = "PostController.get_reddit_posts" THEN "number_posts" ELSE "limit"

\* get_reddit_posts of either controller module.
GetRedditPosts(t) ==
    /\ thread[t].pc = "posts"
    /\ LET f          == thread[t]
           args       == Val(f.request).args
           subreddit  == args_get(args, "subreddit", <<"wallstreetbets">>)
           categories == str_split(args_get(args, "categories", <<"hot">>), ",")
           param      == NumberPostsParam(f.endpoint)
           loader     == create_reddit_loader(subreddit, categories,
                            IF param \in DOMAIN args THEN int(args[param]) ELSE 10)
           documents  == loader_load(loader.search_queries[1], loader.categories,
                                     loader.number_posts)
           posts      == [i \in 1..Len(documents) |->
                            to_dict(create_post_summary_from_document(documents[i]))]
       IN  IF param \in DOMAIN args /\ ~IntParses(args[param])
           THEN thread' = [thread EXCEPT ![t] = Raise(f, "ValueError")]
           ELSE \/ thread' = [thread EXCEPT ![t] =
                       Raise([f EXCEPT !.loader = Some(loader)], "SDKError")]
                \/ thread' = [thread EXCEPT ![t] =
                       Return([f EXCEPT !.loader = Some(loader)], posts)]
    /\ UNCHANGED store

\* Where get_reddit_post_by_id takes the post id from: the path
\* (PostController.py) or the query string (post_controller.py).
RequestedPostId(f) ==
    IF f.endpoint = "PostController.get_reddit_post_by_id"
    THEN Val(f.view_args)
    ELSE args_get(Val(f.request).args, "post_id", <<>>)

\* get_reddit_post_by_id up to the call of embed_post: the submission is
\* fetched, the Post built and its dict handed to embed_post.
Fetch(t) ==
    /\ thread[t].pc = "fetch"
    /\ LET f          == thread[t]
           post_id    == RequestedPostId(f)
           submission == Submission(post_id[1])
           withBody   == SelectSeq(submission.comments, LAMBDA c : c.body # None)
           comments   == [i \in 1..Len(withBody) |-> Val(withBody[i].body)]
           post       == create_post([post_id |-> post_id,
                                      post_title |-> submission.title,
                                      post_body |-> submission.selftext,
                                      post_comments |-> comments])
       IN  \/ thread' = [thread EXCEPT ![t] = Raise(f, "SDKError")]
           \/ thread' = [thread EXCEPT ![t] =
                 [f EXCEPT !.pc = "stats", !.post = Some(post),
                           !.embed_arg = Some(to_dict(post))]]
    /\ UNCHANGED store

\* embed_post lines 124-128: the index is opened and asked for its size.
Stats(t) ==
    /\ thread[t].pc = "stats"
    /\ \/ thread' = [thread EXCEPT ![t] = Raise(@, "SDKError")]
       \/ thread' = [thread EXCEPT ![t].pc =
             IF has_existing_embeddings(store) THEN "delete" ELSE "split"]
    /\ UNCHANGED store

\* embed_post line 129
Delete(t) ==
    /\ thread[t].pc = "delete"
    /\ \/ /\ thread' = [thread EXCEPT ![t] = Raise(@, "SDKError")]
          /\ UNCHANGED store
       \/ /\ store' = delete_all(store)
          /\ thread' = [thread EXCEPT ![t].pc = "split", ![t].deleted = TRUE]

\* embed_post lines 131-149
Split(t) ==
    /\ thread[t].pc = "split"
    /\ \/ thread' = [thread EXCEPT ![t] = Raise(@, "SDKError")]
       \/ thread' = [thread EXCEPT ![t].pc = "add",
             ![t].documents = Some(documents_of(Val(thread[t].embed_arg)))]
    /\ UNCHANGED store

\* embed_post lines 152-154
Add(t) ==
    /\ thread[t].pc = "add"
    /\ \/ /\ thread' = [thread EXCEPT ![t] = Raise(@, "SDKError")]
          /\ UNCHANGED store
       \/ /\ store' = add_documents(store, Val(thread[t].documents))
          /\ thread' = [thread EXCEPT ![t].pc = "respond",
                                      ![t].embed_ret = Some(TRUE)]

\* get_reddit_post_by_id's last line: return jsonify(post.to_dict())
Respond(t) ==
    /\ thread[t].pc = "respond"
    /\ thread' = [thread EXCEPT ![t] = Return(@, to_dict(Val(@.post)))]
    /\ UNCHANGED store

\* post_controller.py: chat_with_post.  The call of reply_to_message binds
\* its arguments to the declared parameters first.
ChatWithPost(t) ==
    /\ thread[t].pc = "chat"
    /\ LET f            == thread[t]
           data         == Val(f.request).json
           message      == args_get(data, "message", None)
           chat_history == args_get(data, "chat_history", <<>>)
           call_args    == <<message, chat_history>>
       IN  IF Len(call_args) # Len(reply_to_message_params)
           THEN thread' = [thread EXCEPT ![t] = Raise(f, "TypeError")]
           ELSE \/ thread' = [thread EXCEPT ![t] = Raise(f, "SDKError")]
                \/ thread' = [thread EXCEPT ![t] =
                      Return(f, [response |-> reply_to_message(store, call_args[1])])]
    /\ UNCHANGED store

\* The response, or the exception, has left the view function: the thread
\* is free for the next request.
Finish(t) ==
    /\ thread[t].pc \in {"responded", "raised"}
    /\ thread' = [thread EXCEPT ![t] = Idle]
    /\ UNCHANGED store

NoneBusy == \A t \in Threads : thread[t].pc = "idle"

\* The application run.py serves, requests overlapping freely.
Next ==
    \E t \in Threads :
        \/ \E r \in Requests : Receive(t, r, create_app)
        \/ Index(t)
        \/ GetRedditPosts(t)
        \/ Fetch(t)
        \/ Stats(t)
        \/ Delete(t)
        \/ Split(t)
        \/ Add(t)
        \/ Respond(t)
        \/ Finish(t)

Spec == Init /\ [][Next]_vars

\* The same application with its requests arriving one at a time.
NextSerial ==
    \E t \in Threads :
        \/ \E r \in Requests : NoneBusy /\ Receive(t, r, create_app)
        \/ Index(t)
        \/ GetRedditPosts(t)
        \/ Fetch(t)
        \/ Stats(t)
        \/ Delete(t)
        \/ Split(t)
        \/ Add(t)
        \/ Respond(t)
        \/ Finish(t)

SpecSerial == Init /\ [][NextSerial]_vars

\* The blueprint of post_controller.py mounted on an application.
NextPostController ==
    \E t \in Threads :
        \/ \E r \in Requests : Receive(t, r, post_controller_app)
        \/ GetRedditPosts(t)
        \/ Fetch(t)
        \/ Stats(t)
        \/ Delete(t)
        \/ Split(t)
        \/ Add(t)
        \/ Respond(t)
        \/ ChatWithPost(t)
        \/ Finish(t)

SpecPostController == Init /\ [][NextPostController]_vars

\* ------------------------------------------------------------------------
\* Vocabulary of the properties
\* ------------------------------------------------------------------------

\* The view function behind an endpoint, whichever module defines it.
ViewFunction(endpoint) ==
    CASE endpoint \in {"PostController.get_reddit_posts",
                       "post_controller.get_reddit_posts"} -> "get_reddit_posts"
      [] endpoint \in {"PostController.get_reddit_post_by_id",
                       "post_controller.get_reddit_post_by_id"} -> "get_reddit_post_by_id"
      [] endpoint = "post_controller.chat_with_post" -> "chat_with_post"
      [] OTHER -> endpoint

Serving(t) == thread[t].pc # "idle"
Finished(t) == thread[t].pc \in {"responded", "raised"}
Responded(t) == thread[t].pc = "responded"
Raised(t) == thread[t].pc = "raised"
RaisedAt(t, pcs) == Raised(t) /\ Val(thread[t].exception).at \in pcs
SDKFailed(t) == Raised(t) /\ Val(thread[t].exception).type = "SDKError"
Runs(t, fn) == Serving(t) /\ ViewFunction(thread[t].endpoint) = fn
Body(t) == Val(thread[t].response).body

\* The three routes of the HTTP surface.
IsPostsRoute(r) == r.method = "GET" /\ r.path = <<"reddit", "posts">>
IsPostRoute(r) ==
    r.method = "GET" /\ r.path = <<"reddit", "post">> /\ "post_id" \in DOMAIN r.args
IsChatRoute(r) == r.method = "POST" /\ r.path = <<"reddit", "chat">>

\* ------------------------------------------------------------------------
\* C1.  The application create_app() returns serves GET /reddit/posts,
\* GET /reddit/post?post_id= and POST /reddit/chat: a request to any of the
\* three reaches its handler and is not answered as not found.
\* ------------------------------------------------------------------------
C1_ThreeRoutesServed ==
    \A t \in Threads :
        Serving(t) =>
            LET r == Val(thread[t].request)
                fn == ViewFunction(thread[t].endpoint)
            IN  /\ IsPostsRoute(r) => fn = "get_reddit_posts"
                /\ IsPostRoute(r) => fn = "get_reddit_post_by_id"
                /\ IsChatRoute(r) => fn = "chat_with_post"

\* ------------------------------------------------------------------------
\* C2.  Every POST /reddit/chat request with post_id and message completes
\* with the JSON object {response: <what reply_to_message produced for the
\* message>}, chat_history defaulting to the empty list; only a failing SDK
\* call may keep it from completing.
\* ------------------------------------------------------------------------
C2_ChatReturnsReply ==
    \A t \in Threads :
        (Runs(t, "chat_with_post") /\ Finished(t) /\ ~SDKFailed(t)) =>
            /\ Responded(t)
            /\ DOMAIN Body(t) = {"response"}
            /\ Body(t).response.question = Val(thread[t].request).json.message

\* ------------------------------------------------------------------------
\* C3.  get_reddit_post_by_id runs fetch -> build Post -> embed_post ->
\* respond: embed_post is handed the dict of the Post that was built, a
\* response exists only once embed_post has returned, and the body of the
\* response is field for field the dict handed to embed_post, its post_id the
\* requested id.
\* ------------------------------------------------------------------------
C3_FetchEmbedRespond ==
    \A t \in Threads :
        Runs(t, "get_reddit_post_by_id") =>
            LET f == thread[t]
            IN  /\ f.embed_arg # None =>
                      f.post # None /\ Val(f.embed_arg) = to_dict(Val(f.post))
                /\ f.embed_ret # None => f.embed_arg # None
                /\ f.response # None =>
                      /\ f.embed_ret = Some(TRUE)
                      /\ Body(t) = Val(f.embed_arg)
                      /\ DOMAIN Body(t) = {"post_id", "title", "upvotes",
                                           "username", "body", "comments"}
                      /\ Body(t).post_id = RequestedPostId(f)
                      /\ Body(t).title = Submission(RequestedPostId(f)[1]).title

C3_Witness ==
    \E t \in Threads :
        /\ Runs(t, "get_reddit_post_by_id")
        /\ Responded(t)
        /\ thread[t].embed_ret = Some(TRUE)
        /\ store # EmptyBag

\* ------------------------------------------------------------------------
\* C4.  GET /reddit/posts passes subreddit (default 'wallstreetbets'),
\* categories (comma-split, default ['hot']) and limit (integer, default 10)
\* to the loader, and answers with one summary per loaded document, in
\* order, each with the six post fields: post_id, title, upvotes and
\* username from the metadata, body and comments null.
\* ------------------------------------------------------------------------
C4_PostsPassesLimit ==
    \A t \in Threads :
        (Runs(t, "get_reddit_posts") /\ thread[t].loader # None) =>
            LET args   == Val(thread[t].request).args
                loader == Val(thread[t].loader)
                docs   == loader_load(loader.search_queries[1], loader.categories,
                                      loader.number_posts)
            IN  /\ loader.search_queries =
                      <<args_get(args, "subreddit", <<"wallstreetbets">>)>>
                /\ loader.categories =
                      str_split(args_get(args, "categories", <<"hot">>), ",")
                /\ "limit" \notin DOMAIN args => loader.number_posts = 10
                /\ ("limit" \in DOMAIN args /\ IntParses(args.limit)) =>
                      loader.number_posts = int(args.limit)
                /\ Responded(t) =>
                      /\ Len(Body(t)) = Len(docs)
                      /\ \A i \in 1..Len(docs) :
                            /\ Body(t)[i].post_id = docs[i].metadata.post_id
                            /\ Body(t)[i].title = docs[i].metadata.post_title
                            /\ Body(t)[i].upvotes = Some(docs[i].metadata.post_score)
                            /\ Body(t)[i].username = str(docs[i].metadata.post_author)
                            /\ Body(t)[i].body = None
                            /\ Body(t)[i].comments = None

\* A thread that holds an exception: where it stopped and what it has not done.
C5_StateOfRaised ==
    \A t \in Threads :
        thread[t].exception # None =>
            LET f  == thread[t]
                at == Val(f.exception).at
            IN  /\ f.pc = "raised"
                /\ f.response = None
                /\ f.embed_ret = None
                /\ at \in {"posts", "fetch"} => f.embed_arg = None
                /\ at \in {"fetch", "stats", "delete"} => ~f.deleted
                /\ at \in {"fetch", "stats", "delete", "split"} => f.documents = None

\* The step that raises, and the step after it.
C5_RaisingStep ==
    \A t \in Threads :
        /\ (thread[t].pc # "raised" /\ thread'[t].pc = "raised") =>
              /\ store' = store
              /\ thread'[t] = Raise([thread[t] EXCEPT !.loader = thread'[t].loader],
                                    Val(thread'[t].exception).type)
        /\ thread[t].pc = "raised" => thread'[t].pc \in {"raised", "idle"}

C6_EmbedPostReturnsBool ==
    \A t \in Threads :
        (thread[t].embed_arg # None /\ thread[t].pc \in {"respond", "responded", "raised"}) =>
            /\ thread[t].embed_ret \in {Some(TRUE), Some(FALSE)}
            /\ thread[t].embed_ret = Some(TRUE) <=> ~Raised(t)

\* The index after embed_post returned, and between its delete and its add.
C7_StoreIsLastPost ==
    \A t \in Threads :
        /\ thread[t].embed_ret = Some(TRUE) =>
              LET post == Val(thread[t].embed_arg)
              IN  /\ store = SeqToBag(documents_of(post))
                  /\ \A d \in BagToSet(store) :
                        d.metadata = [upvotes |-> post.upvotes, title |-> post.title]
        /\ thread[t].pc \in {"split", "add"} => store = EmptyBag

\* The steps that change the index.
C7_StoreStep ==
    /\ \A t \in Threads :
          (thread'[t].deleted /\ ~thread[t].deleted) =>
              /\ total_vector_count(store) > 0
              /\ store' = EmptyBag
              /\ thread[t].pc = "delete"
              /\ thread[t].documents = None
    /\ store' # store =>
          \E t \in Threads :
              /\ thread[t].pc \in {"delete", "add"}
              /\ thread'[t] # thread[t]

\* ------------------------------------------------------------------------
\* C7.  With embed_post calls running one at a time, after each call that
\* succeeded the index holds exactly the chunk documents of the post just
\* embedded, each with that post's upvotes and title, and nothing of an
\* earlier post; delete_all is issued only when the index reported
\* total_vector_count > 0, and before add_documents.
\* ------------------------------------------------------------------------
C7_ClearThenStore == []C7_StoreIsLastPost /\ [][C7_StoreStep]_vars

C7_Witness ==
    \E t \in Threads :
        /\ thread[t].embed_ret = Some(TRUE)
        /\ thread[t].deleted
        /\ store = SeqToBag(documents_of(Val(thread[t].embed_arg)))
        /\ BagCardinality(store) = 2

\* ------------------------------------------------------------------------
\* C8.  Whatever the interleaving of two overlapping GET /reddit/post
\* requests for different posts, once both have completed the index holds
\* the chunks of exactly one of the two posts: no mixture, and not nothing.
\* ------------------------------------------------------------------------
C8_OneOfTwoPosts ==
    \A t, u \in Threads :
        (/\ t # u
         /\ Runs(t, "get_reddit_post_by_id") /\ Responded(t)
         /\ Runs(u, "get_reddit_post_by_id") /\ Responded(u)
         /\ Val(thread[t].embed_arg).post_id # Val(thread[u].embed_arg).post_id) =>
            \/ store = SeqToBag(documents_of(Val(thread[t].embed_arg)))
            \/ store = SeqToBag(documents_of(Val(thread[u].embed_arg)))

\* ------------------------------------------------------------------------
\* C9.  Two chat requests with the same message and different post_id or
\* chat_history hand the same inputs to retrieval and to the model: each is
\* answered, from the message and the index alone.
\* ------------------------------------------------------------------------
C9_ChatAnswersFromIndex ==
    \A t, u \in Threads :
        (/\ t # u
         /\ Runs(t, "chat_with_post") /\ Finished(t) /\ ~SDKFailed(t)
         /\ Runs(u, "chat_with_post") /\ Finished(u) /\ ~SDKFailed(u)
         /\ Val(thread[t].request).json.message = Val(thread[u].request).json.message
         /\ Val(thread[t].request).json # Val(thread[u].request).json) =>
            /\ Responded(t) /\ Responded(u)
            /\ DOMAIN Body(t).response = {"context", "question"}
            /\ DOMAIN Body(u).response = {"context", "question"}
            /\ Body(t).response.question = Body(u).response.question

\* The index after a failure that follows line 129.
C10_EmptyAfterLateFailure ==
    \A t \in Threads :
        RaisedAt(t, {"split", "add"}) =>
            /\ store = EmptyBag
            /\ retrieve(store, <<"why">>) = EmptyBag

\* The steps of a request up to delete_all taking effect.
C10_EarlyStep ==
    \A t \in Threads :
        (/\ thread'[t] # thread[t]
         /\ \/ thread[t].pc \in {"fetch", "stats"}
            \/ thread[t].pc = "delete" /\ thread'[t].pc = "raised") =>
            store' = store

====
